---- MODULE Spec2Model ----
(***************************************************************************)
(* A model of timecomp.py: the two GRPO reward functions (format and       *)
(* correctness of a tagged completion) and the TimingCallback that wraps   *)
(* the trainer's methods to time the generation and backpropagation        *)
(* phases.                                                                 *)
(*                                                                         *)
(* A Python str is modelled as a sequence of one-character strings, so     *)
(* that split, strip and the regular expression act on characters.  The    *)
(* rewards 0.0, 1.0 and 2.0 are written 0, 1 and 2.                        *)
(***************************************************************************)
EXTENDS Integers, Sequences, FiniteSets, TLC

\* ------------------------------------------------------------------ bounds

\* The pieces a batch of completions is assembled from, over the whole batch.
MaxPieces == 6
\* The completions of one batch.
MaxCompletions == 2
\* The clock: every handler advances time.time() by one.
MaxTime == 6
\* state.global_step ranges over 0..MaxGlobalStep.
MaxGlobalStep == 2
\* args.gradient_accumulation_steps ranges over 1..MaxGradAccum.
MaxGradAccum == 2

\* Python's None, where a time is expected (times are never negative).
None == -1

\* The value of called before a reward function is called.
NotCalled == "not called"

\* ----------------------------------------------------------------- strings

NL == "\n"

OpenReasoning == <<"<", "r", "e", "a", "s", "o", "n", "i", "n", "g", ">">>

CloseReasoning == <<"<", "/", "r", "e", "a", "s", "o", "n", "i", "n", "g", ">">>

OpenAnswer == <<"<", "a", "n", "s", "w", "e", "r", ">">>

CloseAnswer == <<"<", "/", "a", "n", "s", "w", "e", "r", ">">>

\* str.strip() with no argument removes these (the ones the inputs can hold).
Whitespace == {" ", "\n", "\t", "\r"}

\* Whether pat occurs in text at position i (1-based).
StartsWith(text, i, pat) ==
    /\ i >= 1
    /\ i + Len(pat) - 1 <= Len(text)
    /\ \A k \in 1..Len(pat) : text[i + k - 1] = pat[k]

\* str.find: the first position >= from where pat occurs in text, 0 when none.
RECURSIVE Find(_, _, _)
Find(text, pat, from) ==
    IF from + Len(pat) - 1 > Len(text) THEN 0
    ELSE IF StartsWith(text, from, pat) THEN from
    ELSE Find(text, pat, from + 1)

\* str.split(sep): the pieces between the non-overlapping occurrences of sep,
\* left to right; always at least one piece.
RECURSIVE Split(_, _)
Split(text, sep) ==
    LET i == Find(text, sep, 1)
    IN  IF i = 0 THEN <<text>>
        ELSE <<SubSeq(text, 1, i - 1)>>
             \o Split(SubSeq(text, i + Len(sep), Len(text)), sep)

RECURSIVE LStrip(_)
LStrip(s) ==
    IF s # <<>> /\ Head(s) \in Whitespace THEN LStrip(Tail(s)) ELSE s

RECURSIVE RStrip(_)
RStrip(s) ==
    IF s # <<>> /\ s[Len(s)] \in Whitespace
    THEN RStrip(SubSeq(s, 1, Len(s) - 1)) ELSE s

\* str.strip()
Strip(s) == RStrip(LStrip(s))

\* ------------------------------------------------------ extract_xml_answer

\* list[k] for k = -1 or k = 0: an IndexError on an empty list.
IndexError == [raised |-> TRUE, value |-> <<>>]

Index(list, k) ==
    IF Len(list) = 0 THEN IndexError
    ELSE [raised |-> FALSE,
          value |-> IF k = -1 THEN list[Len(list)] ELSE list[k + 1]]

extract_xml_answer(text) ==
    LET tail == Index(Split(text, OpenAnswer), -1)
        head == IF tail.raised THEN IndexError
                ELSE Index(Split(tail.value, CloseAnswer), 0)
    IN  IF head.raised THEN <<>>          \* except IndexError: return ""
        ELSE Strip(head.value)

\* ------------------------------------------------------ format_reward_func

\* The compiled pattern, element by element:
\*   ^<reasoning>(?:(?!</reasoning>).)*</reasoning>\n<answer>(?:(?!</answer>).)*</answer>$
Lit(s) == [k \in 1..Len(s) |-> [kind |-> "lit", arg |-> <<s[k]>>]]

pattern ==
    <<[kind |-> "bol", arg |-> <<>>]>>
    \o Lit(OpenReasoning)
    \o <<[kind |-> "star_not", arg |-> CloseReasoning]>>
    \o Lit(CloseReasoning)
    \o Lit(<<NL>>)
    \o Lit(OpenAnswer)
    \o <<[kind |-> "star_not", arg |-> CloseAnswer]>>
    \o Lit(CloseAnswer)
    \o <<[kind |-> "eol", arg |-> <<>>]>>

\* '.' with no flags: any character but a newline.
Dot(c) == c # NL

\* Whether pat, from its element j on, matches text from position i on, as
\* re.match does with no flags: '^' is the start of the string, '$' the end of
\* the string or the place before a newline that ends it, and (?:(?!tag).)*
\* takes characters one at a time while tag does not start there.
RECURSIVE MatchFrom(_, _, _, _)
MatchFrom(pat, text, i, j) ==
    IF j > Len(pat) THEN TRUE
    ELSE LET e == pat[j]
         IN  CASE e.kind = "bol" -> i = 1 /\ MatchFrom(pat, text, i, j + 1)
               [] e.kind = "lit" ->
                    /\ i <= Len(text)
                    /\ text[i] = e.arg[1]
                    /\ MatchFrom(pat, text, i + 1, j + 1)
               [] e.kind = "star_not" ->
                    \/ MatchFrom(pat, text, i, j + 1)
                    \/ /\ i <= Len(text)
                       /\ ~StartsWith(text, i, e.arg)
                       /\ Dot(text[i])
                       /\ MatchFrom(pat, text, i + 1, j)
               [] e.kind = "eol" ->
                    /\ \/ i = Len(text) + 1
                       \/ i = Len(text) /\ text[i] = NL
                    /\ MatchFrom(pat, text, i, j + 1)

\* bool(re.match(pattern, r))
re_match(pat, text) == MatchFrom(pat, text, 1, 1)

\* completions[i] is the content of the first message of completion i.
format_reward_func(completions) ==
    LET matches == [i \in 1..Len(completions) |-> re_match(pattern, completions[i])]
    IN  [i \in 1..Len(completions) |-> IF matches[i] THEN 1 ELSE 0]

\* ------------------------------------------------- correctness_reward_func

Min(a, b) == IF a < b THEN a ELSE b

\* zip(extracted_responses, answer) stops at the shorter of the two.
correctness_reward_func(completions, answer) ==
    LET extracted_responses ==
            [i \in 1..Len(completions) |-> extract_xml_answer(completions[i])]
    IN  [i \in 1..Min(Len(extracted_responses), Len(answer)) |->
            IF extracted_responses[i] = answer[i] THEN 2 ELSE 0]

\* ---------------------------------------------------------- TimingCallback

\* TimingCallback.__init__
TimingCallback ==
    [generation_start_time |-> None, backprop_start_time |-> None, step_count |-> 0]

\* on_step_begin(args, state, control) run at time t: the callback's fields
\* after it and the lines it prints.
on_step_begin(self, t, global_step, gradient_accumulation_steps) ==
    IF global_step % gradient_accumulation_steps = 0
    THEN [self |-> [self EXCEPT !.generation_start_time = t],
          printed |-> <<<<"Starting generation phase, step", global_step>>>>]
    ELSE [self |-> self, printed |-> <<>>]

\* on_step_end with the count taken out of the if.
on_step_end_counts_every_step(self, t, global_step, gradient_accumulation_steps) ==
    [self |-> [self EXCEPT !.step_count = @ + 1],
     printed |->
         IF global_step % gradient_accumulation_steps = 0
            /\ self.backprop_start_time # None
         THEN <<<<"Backpropagation completed in", t - self.backprop_start_time>>>>
         ELSE <<>>]

\* on_step_end(args, state, control) run at time t.
on_step_end(self, t, global_step, gradient_accumulation_steps) ==
    IF global_step % gradient_accumulation_steps = 0
    THEN [self |-> [self EXCEPT !.step_count = @ + 1],
          printed |->
              IF self.backprop_start_time # None
              THEN <<<<"Backpropagation completed in", t - self.backprop_start_time>>>>
              ELSE <<>>]
    ELSE [self |-> self, printed |-> <<>>]

\* A method of the external trainer, called on a trainer whose methods have
\* taken tstate calls so far.  What it computes is not this program's: its
\* result is a term over all it was given, and it raises when the environment
\* says so (fails).
Original(method, tstate, args, kwargs, fails) ==
    [ret |-> [kind |-> IF fails THEN "raise" ELSE "return",
              method |-> method, state |-> tstate,
              args |-> args, kwargs |-> kwargs],
     state |-> tstate + 1,
     calls |-> <<[method |-> method, args |-> args, kwargs |-> kwargs]>>]

\* wrapped_generate_and_score without the reset of generation_start_time.
wrapped_generate_keeps_timer(self, tstate, t1, args, kwargs, fails) ==
    LET result == Original("_generate_and_score_completions", tstate, args, kwargs, fails)
        out == [self |-> self, printed |-> <<>>, ret |-> result.ret,
                state |-> result.state, calls |-> result.calls]
    IN  IF result.ret.kind = "raise" THEN out
        ELSE IF self.generation_start_time # None
        THEN [out EXCEPT
                !.printed = <<<<"Generation phase completed in",
                                t1 - self.generation_start_time>>,
                              <<"Starting backpropagation phase", 0>>>>,
                !.self = [self EXCEPT !.backprop_start_time = t1]]
        ELSE out

\* wrapped_generate_and_score with the timing in a finally block.
wrapped_generate_times_in_finally(self, tstate, t1, args, kwargs, fails) ==
    LET result == Original("_generate_and_score_completions", tstate, args, kwargs, fails)
        out == [self |-> self, printed |-> <<>>, ret |-> result.ret,
                state |-> result.state, calls |-> result.calls]
    IN  IF self.generation_start_time # None
        THEN [out EXCEPT
                !.printed = <<<<"Generation phase completed in",
                                t1 - self.generation_start_time>>,
                              <<"Starting backpropagation phase", 0>>>>,
                !.self = [self EXCEPT !.backprop_start_time = t1,
                                      !.generation_start_time = None]]
        ELSE out

\* wrapped_generate_and_score(*args, **kwargs), the original returning at
\* time t1.
wrapped_generate_and_score(self, tstate, t1, args, kwargs, fails) ==
    LET result == Original("_generate_and_score_completions", tstate, args, kwargs, fails)
        out == [self |-> self, printed |-> <<>>, ret |-> result.ret,
                state |-> result.state, calls |-> result.calls]
    IN  IF result.ret.kind = "raise" THEN out
        ELSE IF self.generation_start_time # None
        THEN [out EXCEPT
                !.printed = <<<<"Generation phase completed in",
                                t1 - self.generation_start_time>>,
                              <<"Starting backpropagation phase", 0>>>>,
                !.self = [self EXCEPT !.backprop_start_time = t1,
                                      !.generation_start_time = None]]
        ELSE out

\* wrapped_compute_loss declared as (*args) and passing no keyword on.
wrapped_compute_loss_drops_kwargs(self, tstate, t0, t1, args, kwargs, fails) ==
    LET start_time == t0
        result == Original("compute_loss", tstate, args, <<>>, fails)
        out == [self |-> self, printed |-> <<>>, ret |-> result.ret,
                state |-> result.state, calls |-> result.calls]
    IN  IF result.ret.kind = "raise" THEN out
        ELSE [out EXCEPT !.printed = <<<<"Loss computation took", t1 - start_time>>>>]

\* wrapped_compute_loss(*args, **kwargs), entered at time t0, the original
\* returning at time t1.
wrapped_compute_loss(self, tstate, t0, t1, args, kwargs, fails) ==
    LET start_time == t0
        result == Original("compute_loss", tstate, args, kwargs, fails)
        out == [self |-> self, printed |-> <<>>, ret |-> result.ret,
                state |-> result.state, calls |-> result.calls]
    IN  IF result.ret.kind = "raise" THEN out
        ELSE [out EXCEPT !.printed = <<<<"Loss computation took", t1 - start_time>>>>]

\* main's patched_training_step(*args, **kwargs).
patched_training_step(self, tstate, t0, t1, args, kwargs, fails) ==
    LET step_start_time == t0
        loss == Original("training_step", tstate, args, kwargs, fails)
        out == [self |-> self, printed |-> <<>>, ret |-> loss.ret,
                state |-> loss.state, calls |-> loss.calls]
    IN  IF loss.ret.kind = "raise" THEN out
        ELSE [out EXCEPT
                !.printed = <<<<"Complete training step took", t1 - step_start_time>>>>]

\* ------------------------------------------------------------------- state

VARIABLES
    completions,    \* the batch: the content of each completion's first message
    answer,         \* the ground-truth answers passed to correctness_reward_func
    rewards,        \* what the last reward function returned
    called,         \* the reward function last called, NotCalled before any
    npieces,        \* the pieces written into the batch so far
    \* TimingCallback's fields
    generation_start_time,
    backprop_start_time,
    step_count,
    \* the environment of the callback
    now,            \* what time.time() returns
    printed,        \* the [Timing] lines the last handler printed
    trainer_state,  \* the patched trainer: the calls its original methods took
    ret,            \* what the last wrapper returned or raised
    calls,          \* the calls the last wrapper made to the method it replaced
    ref_state,      \* an unpatched trainer given the same calls
    ref_ret,        \* what the unpatched trainer's method returned or raised
    \* history
    last,           \* the last handler run and its inputs
    prev,           \* the callback's fields before it ran
    timer_begin,    \* the time of the latest on_step_begin that started the timer
    gen_reports,    \* the generation latencies reported since then
    backprop_fresh  \* backprop_start_time was set since then

rewardVars == <<completions, answer, rewards, called, npieces>>

timingVars ==
    <<generation_start_time, backprop_start_time, step_count, now, printed,
      trainer_state, ret, calls, ref_state, ref_ret,
      last, prev, timer_begin, gen_reports, backprop_fresh>>

vars == <<rewardVars, timingVars>>

\* What a completion scored for its format is assembled from.
FormatPieces ==
    {OpenReasoning, CloseReasoning, OpenAnswer, CloseAnswer, <<NL>>, <<"4">>}

\* What a completion scored for its answer is assembled from.
AnswerPieces == {OpenAnswer, CloseAnswer, <<NL>>, <<"4">>}

\* The values a ground-truth answer takes.
AnswerValues == {<<"4">>, <<"4", "4">>}

\* ------------------------------------------------------------------ timing

\* The shapes of a call the trainer makes to one of its own methods.
CallShapes ==
    {[args |-> <<"inputs">>, kwargs |-> <<>>],
     [args |-> <<"model", "inputs">>, kwargs |-> <<<<"num_items_in_batch", "4">>>>]}

NoCall == [kind |-> "none", method |-> "", state |-> 0, args |-> <<>>, kwargs |-> <<>>]

Self ==
    [generation_start_time |-> generation_start_time,
     backprop_start_time |-> backprop_start_time,
     step_count |-> step_count]

\* main() up to trainer.train(): TimingCallback(), patch_trainer(trainer) and
\* the patch of training_step are done, no handler has run.
TimingInit ==
    /\ generation_start_time = TimingCallback.generation_start_time
    /\ backprop_start_time = TimingCallback.backprop_start_time
    /\ step_count = TimingCallback.step_count
    /\ now = 0
    /\ printed = <<>>
    /\ trainer_state = 0
    /\ ret = NoCall
    /\ calls = <<>>
    /\ ref_state = 0
    /\ ref_ret = NoCall
    /\ last = [op |-> "", global_step |-> 0, gradient_accumulation_steps |-> 1,
               args |-> <<>>, kwargs |-> <<>>, fails |-> FALSE]
    /\ prev = TimingCallback
    /\ timer_begin = None
    /\ gen_reports = 0
    /\ backprop_fresh = FALSE

SetSelf(new) ==
    /\ generation_start_time' = new.generation_start_time
    /\ backprop_start_time' = new.backprop_start_time
    /\ step_count' = new.step_count
    /\ prev' = Self

\* The trainer fires on_step_begin with state.global_step = global_step and
\* args.gradient_accumulation_steps = gas.
OnStepBegin(global_step, gas) ==
    /\ now < MaxTime
    /\ LET r == on_step_begin(Self, now, global_step, gas)
           started == r.self.generation_start_time # generation_start_time
                      \/ r.printed # <<>>
       IN  /\ SetSelf(r.self)
           /\ printed' = r.printed
           /\ timer_begin' = IF started THEN now ELSE timer_begin
           /\ gen_reports' = IF started THEN 0 ELSE gen_reports
           /\ backprop_fresh' = IF started THEN FALSE ELSE backprop_fresh
    /\ now' = now + 1
    /\ last' = [op |-> "on_step_begin", global_step |-> global_step,
                gradient_accumulation_steps |-> gas,
                args |-> <<>>, kwargs |-> <<>>, fails |-> FALSE]
    /\ UNCHANGED <<trainer_state, ret, calls, ref_state, ref_ret, rewardVars>>

\* The trainer fires on_step_end.
OnStepEnd(global_step, gas) ==
    /\ now < MaxTime
    /\ LET r == on_step_end(Self, now, global_step, gas)
       IN  /\ SetSelf(r.self)
           /\ printed' = r.printed
    /\ now' = now + 1
    /\ last' = [op |-> "on_step_end", global_step |-> global_step,
                gradient_accumulation_steps |-> gas,
                args |-> <<>>, kwargs |-> <<>>, fails |-> FALSE]
    /\ UNCHANGED <<trainer_state, ret, calls, ref_state, ref_ret,
                   timer_begin, gen_reports, backprop_fresh, rewardVars>>

\* What a wrapper's run leaves: r is the wrapper's outcome, ref the outcome of
\* the replaced method called directly on the unpatched trainer.
Wrapped(op, r, ref, c, fails) ==
    /\ SetSelf(r.self)
    /\ printed' = r.printed
    /\ trainer_state' = r.state
    /\ ret' = r.ret
    /\ calls' = r.calls
    /\ ref_state' = ref.state
    /\ ref_ret' = ref.ret
    /\ now' = now + 1
    /\ last' = [op |-> op, global_step |-> 0, gradient_accumulation_steps |-> 1,
                args |-> c.args, kwargs |-> c.kwargs, fails |-> fails]

\* The trainer calls self._generate_and_score_completions(*args, **kwargs).
GenerateAndScore(c, fails) ==
    /\ now < MaxTime
    /\ LET r == wrapped_generate_and_score(Self, trainer_state, now + 1,
                                           c.args, c.kwargs, fails)
           ref == Original("_generate_and_score_completions", ref_state,
                           c.args, c.kwargs, fails)
           reported == \E k \in 1..Len(r.printed) :
                           r.printed[k][1] = "Generation phase completed in"
       IN  /\ Wrapped("_generate_and_score_completions", r, ref, c, fails)
           /\ gen_reports' = IF reported THEN gen_reports + 1 ELSE gen_reports
           /\ backprop_fresh' =
                  IF r.self.backprop_start_time # backprop_start_time
                  THEN TRUE ELSE backprop_fresh
    /\ UNCHANGED <<timer_begin, rewardVars>>

\* The trainer calls self.compute_loss(*args, **kwargs).
ComputeLoss(c, fails) ==
    /\ now < MaxTime
    /\ LET r == wrapped_compute_loss(Self, trainer_state, now, now + 1,
                                     c.args, c.kwargs, fails)
           ref == Original("compute_loss", ref_state, c.args, c.kwargs, fails)
       IN  Wrapped("compute_loss", r, ref, c, fails)
    /\ UNCHANGED <<timer_begin, gen_reports, backprop_fresh, rewardVars>>

\* The training loop calls trainer.training_step(*args, **kwargs).
TrainingStep(c, fails) ==
    /\ now < MaxTime
    /\ LET r == patched_training_step(Self, trainer_state, now, now + 1,
                                      c.args, c.kwargs, fails)
           ref == Original("training_step", ref_state, c.args, c.kwargs, fails)
       IN  Wrapped("training_step", r, ref, c, fails)
    /\ UNCHANGED <<timer_begin, gen_reports, backprop_fresh, rewardVars>>

Next ==
    \/ \E g \in 0..MaxGlobalStep, a \in 1..MaxGradAccum : OnStepBegin(g, a)
    \/ \E g \in 0..MaxGlobalStep, a \in 1..MaxGradAccum : OnStepEnd(g, a)
    \/ \E c \in CallShapes, fails \in BOOLEAN : GenerateAndScore(c, fails)
    \/ \E c \in CallShapes, fails \in BOOLEAN : ComputeLoss(c, fails)
    \/ \E c \in CallShapes, fails \in BOOLEAN : TrainingStep(c, fails)

\* ----------------------------------------------------------------- rewards

RewardInit ==
    /\ completions = <<<<>>>>
    /\ answer = <<>>
    /\ rewards = <<>>
    /\ called = NotCalled
    /\ npieces = 0

\* The timing callback idle, a batch of completions about to be scored.
Init == RewardInit /\ TimingInit

Spec == Init /\ [][Next]_vars

\* The model under training writes one more piece of the last completion.
AppendPiece(p) ==
    /\ called = NotCalled
    /\ npieces < MaxPieces
    /\ npieces' = npieces + 1
    /\ completions' = [completions EXCEPT ![Len(completions)] = @ \o p]
    /\ UNCHANGED <<answer, rewards, called, timingVars>>

\* The model starts the next completion of the batch.
NextCompletion ==
    /\ called = NotCalled
    /\ Len(completions) < MaxCompletions
    /\ completions' = Append(completions, <<>>)
    /\ UNCHANGED <<answer, rewards, called, npieces, timingVars>>

\* The trainer calls format_reward_func(completions = completions).
CallFormatReward ==
    /\ called = NotCalled
    /\ rewards' = format_reward_func(completions)
    /\ called' = "format_reward_func"
    /\ UNCHANGED <<completions, answer, npieces, timingVars>>

\* The trainer calls correctness_reward_func(prompts, completions, answer)
\* with one answer per completion.
CallCorrectnessReward(ans) ==
    /\ called = NotCalled
    /\ answer' = ans
    /\ rewards' = correctness_reward_func(completions, ans)
    /\ called' = "correctness_reward_func"
    /\ UNCHANGED <<completions, npieces, timingVars>>

FormatNext ==
    \/ \E p \in FormatPieces : AppendPiece(p)
    \/ NextCompletion
    \/ CallFormatReward

FormatSpec == Init /\ [][FormatNext]_vars

CorrectnessNext ==
    \/ \E p \in AnswerPieces : AppendPiece(p)
    \/ NextCompletion
    \/ \E ans \in [1..Len(completions) -> AnswerValues] : CallCorrectnessReward(ans)

CorrectnessSpec == Init /\ [][CorrectnessNext]_vars

\* ------------------------------------------------- the reward claims

\* Whether pat occurs in text.
Contains(text, pat) == \E i \in 1..Len(text) : StartsWith(text, i, pat)

\* The positions where pat occurs in text.
Occurrences(text, pat) == {i \in 1..Len(text) : StartsWith(text, i, pat)}

\* text is '<reasoning>' b1 '</reasoning>' '\n' '<answer>' b2 '</answer>' with
\* no '</reasoning>' in b1 and no '</answer>' in b2, and nothing else.
TaggedFormat(text) ==
    \E m \in 0..Len(text) :
        LET b1 == SubSeq(text, Len(OpenReasoning) + 1, Len(OpenReasoning) + m)
            s2 == Len(OpenReasoning) + m + Len(CloseReasoning) + 1 + Len(OpenAnswer)
            n  == Len(text) - s2 - Len(CloseAnswer)
            b2 == SubSeq(text, s2 + 1, s2 + n)
        IN  /\ n >= 0
            /\ text = OpenReasoning \o b1 \o CloseReasoning \o <<NL>>
                      \o OpenAnswer \o b2 \o CloseAnswer
            /\ ~Contains(b1, CloseReasoning)
            /\ ~Contains(b2, CloseAnswer)

\* The same with what the pattern adds: no newline in either body, and one
\* newline allowed after '</answer>'.
PatternFormat(text) ==
    \E m \in 0..Len(text), e \in 0..1 :
        LET b1 == SubSeq(text, Len(OpenReasoning) + 1, Len(OpenReasoning) + m)
            s2 == Len(OpenReasoning) + m + Len(CloseReasoning) + 1 + Len(OpenAnswer)
            n  == Len(text) - s2 - Len(CloseAnswer) - e
            b2 == SubSeq(text, s2 + 1, s2 + n)
        IN  /\ n >= 0
            /\ text = OpenReasoning \o b1 \o CloseReasoning \o <<NL>>
                      \o OpenAnswer \o b2 \o CloseAnswer
                      \o (IF e = 1 THEN <<NL>> ELSE <<>>)
            /\ ~Contains(b1, CloseReasoning) /\ ~Contains(b1, <<NL>>)
            /\ ~Contains(b2, CloseAnswer) /\ ~Contains(b2, <<NL>>)

\* C1: format_reward_func returns one reward per completion, in input order,
\* and the reward of completion i is 1.0 exactly when its content is
\* '<reasoning>' + a body without '</reasoning>' + '</reasoning>' + a newline +
\* '<answer>' + a body without '</answer>' + '</answer>' and nothing else;
\* otherwise it is 0.0.
C1_FormatRewardIsTaggedFormat ==
    called = "format_reward_func" =>
        /\ Len(rewards) = Len(completions)
        /\ \A i \in 1..Len(completions) :
               rewards[i] = IF TaggedFormat(completions[i]) THEN 1 ELSE 0

\* What format_reward_func computes instead: the bodies hold no newline either
\* and one newline may follow '</answer>'.
FormatRewardIsPatternFormat ==
    called = "format_reward_func" =>
        /\ Len(rewards) = Len(completions)
        /\ \A i \in 1..Len(completions) :
               rewards[i] = IF PatternFormat(completions[i]) THEN 1 ELSE 0

\* Whether text holds an '<answer>' with an '</answer>' after the last one.
HasTaggedAnswer(text) ==
    /\ Occurrences(text, OpenAnswer) # {}
    /\ LET lastOpen == CHOOSE i \in Occurrences(text, OpenAnswer) :
                       \A k \in Occurrences(text, OpenAnswer) : k <= i
       IN  \E q \in Occurrences(text, CloseAnswer) : q >= lastOpen + Len(OpenAnswer)

\* The text between the last '<answer>' and the first '</answer>' after it.
TaggedAnswer(text) ==
    LET lastOpen == CHOOSE i \in Occurrences(text, OpenAnswer) :
                    \A k \in Occurrences(text, OpenAnswer) : k <= i
        after == {q \in Occurrences(text, CloseAnswer) : q >= lastOpen + Len(OpenAnswer)}
        first == CHOOSE q \in after : \A k \in after : q <= k
    IN  SubSeq(text, lastOpen + Len(OpenAnswer), first - 1)

\* C2: for completions and answers of equal length, correctness_reward_func
\* returns one reward per completion, in input order; the reward of completion
\* i is 2.0 exactly when the text between the last '<answer>' of its content and
\* the first '</answer>' after it, stripped, equals answer[i], and 0.0
\* otherwise; no other value is returned.
C2_CorrectnessRewardIsTaggedAnswer ==
    called = "correctness_reward_func" =>
        /\ Len(rewards) = Len(completions)
        /\ \A i \in 1..Len(completions) :
               /\ rewards[i] \in {0, 2}
               /\ rewards[i] = 2 <=>
                      /\ HasTaggedAnswer(completions[i])
                      /\ Strip(TaggedAnswer(completions[i])) = answer[i]

\* What correctness_reward_func computes: a missing '<answer>' makes the
\* answer start at the start of the content, a missing '</answer>' makes it run
\* to the end.
CorrectnessRewardOnTagged ==
    called = "correctness_reward_func" =>
        /\ Len(rewards) = Len(completions)
        /\ \A i \in 1..Len(completions) :
               /\ rewards[i] \in {0, 2}
               /\ HasTaggedAnswer(completions[i]) =>
                      (rewards[i] = 2 <=>
                           Strip(TaggedAnswer(completions[i])) = answer[i])

\* C6: extract_xml_answer never raises, and returns the empty string for every
\* text that holds no '<answer>' tag.
C6_ExtractEmptyWithoutAnswerTag ==
    called = "correctness_reward_func" =>
        \A i \in 1..Len(completions) :
            ~Contains(completions[i], OpenAnswer) =>
                extract_xml_answer(completions[i]) = <<>>

\* ------------------------------------------------- the timing claims

Wrappers == {"_generate_and_score_completions", "compute_loss", "training_step"}

\* Whether the last handler printed line, and the number it printed with it.
Reported(line) == \E k \in 1..Len(printed) : printed[k][1] = line

Seconds(line) ==
    printed[CHOOSE k \in 1..Len(printed) : printed[k][1] = line][2]

\* Whether the last on_step_begin or on_step_end ran at an accumulation boundary.
AtBoundary == last.global_step % last.gradient_accumulation_steps = 0

\* C3: whenever on_step_end reports a backpropagation time, backprop_start_time
\* was set by a wrapped_generate_and_score call made after the latest
\* on_step_begin that started the generation timer.
C3_BackpropMeasuredFromLatestGeneration ==
    (last.op = "on_step_end" /\ Reported("Backpropagation completed in")) =>
        backprop_fresh

\* What on_step_end does report: the time since the latest generation that
\* followed a timer start, however many timer starts ago.
BackpropMeasuredFromSomeGeneration ==
    (last.op = "on_step_end" /\ Reported("Backpropagation completed in")) =>
        /\ backprop_start_time # None
        /\ timer_begin # None
        /\ Seconds("Backpropagation completed in") = (now - 1) - backprop_start_time

\* C4: a generation latency is reported only by a wrapped_generate_and_score
\* call that follows an on_step_begin that started the timer, it is measured
\* from the latest such on_step_begin, at most one is reported per such
\* on_step_begin, and after a call that returns generation_start_time is None.
C4_GenerationLatencyOncePerTimerStart ==
    /\ Reported("Generation phase completed in") =>
           /\ last.op = "_generate_and_score_completions"
           /\ timer_begin # None
           /\ Seconds("Generation phase completed in") = now - timer_begin
    /\ gen_reports <= 1
    /\ (last.op = "_generate_and_score_completions" /\ ret.kind = "return") =>
           generation_start_time = None

\* Generation called again after the one latency of this timer start was
\* reported: it returns and reports nothing.
C4_Witness ==
    /\ last.op = "_generate_and_score_completions"
    /\ ret.kind = "return"
    /\ timer_begin # None
    /\ gen_reports = 1
    /\ prev.generation_start_time = None
    /\ printed = <<>>

\* C5: each wrapper calls the method it replaced exactly once, with the
\* positional and keyword arguments it was given, and returns (or raises) what
\* that call did, so the patched trainer and an unpatched one given the same
\* calls are in the same state with the same results.
C5_WrappersAreTransparent ==
    last.op \in Wrappers =>
        /\ calls = <<[method |-> last.op, args |-> last.args, kwargs |-> last.kwargs]>>
        /\ ret = ref_ret
        /\ trainer_state = ref_state

\* compute_loss called with a keyword argument, after other calls, returning.
C5_Witness ==
    /\ last.op = "compute_loss"
    /\ last.kwargs # <<>>
    /\ ret.kind = "return"
    /\ ret.kwargs = last.kwargs
    /\ trainer_state >= 3

\* C7: on_step_begin sets generation_start_time to the current time exactly
\* at an accumulation boundary and otherwise changes no field; on_step_end
\* never changes generation_start_time or backprop_start_time and adds one to
\* step_count at a boundary and nothing otherwise; step_count never decreases.
C7_StepHandlersFrame ==
    /\ last.op = "on_step_begin" =>
           IF AtBoundary
           THEN generation_start_time = now - 1
           ELSE Self = prev
    /\ last.op = "on_step_end" =>
           /\ generation_start_time = prev.generation_start_time
           /\ backprop_start_time = prev.backprop_start_time
           /\ step_count = prev.step_count + (IF AtBoundary THEN 1 ELSE 0)
    /\ step_count >= prev.step_count

\* on_step_end off a boundary, with both timers set and steps counted before.
C7_Witness ==
    /\ last.op = "on_step_end"
    /\ ~AtBoundary
    /\ step_count = prev.step_count
    /\ step_count >= 1
    /\ generation_start_time # None
    /\ backprop_start_time # None

\* C8: when the replaced method raises, the wrapper raises the same exception,
\* the callback's fields are as before (generation_start_time stays set,
\* backprop_start_time is not updated) and no latency is reported.
C8_ExceptionsLeaveCallbackUnchanged ==
    (last.op \in Wrappers /\ last.fails) =>
        /\ ret.kind = "raise"
        /\ ret = ref_ret
        /\ Self = prev
        /\ printed = <<>>

\* The original generation raising while the generation timer runs.
C8_Witness ==
    /\ last.op = "_generate_and_score_completions"
    /\ last.fails
    /\ ret.kind = "raise"
    /\ generation_start_time # None
    /\ generation_start_time = timer_begin

====
